---- MODULE Spec2Model ----
(***************************************************************************)
(* Model of src/index.js: class DynamicCertificates.                       *)
(*                                                                         *)
(* Strings are sequences of one-character strings, so that concatenation   *)
(* and slice(-2) are computed.  A Date is a record of its local-time       *)
(* fields [y, m, d, t]: full year, month 0..11 (as getMonth), day of month *)
(* and time of day in ticks.  Every handler is synchronous JavaScript and  *)
(* is one action; the wall clock is advanced by the environment before     *)
(* each `new Date()` the handler evaluates.                                *)
(***************************************************************************)
EXTENDS Integers, Sequences, FiniteSets, TLC

VARIABLES
  now,          \* the wall clock: what `new Date()` returns
  constructed,  \* an engine exists: the constructor returned
  publicKey,    \* this.publicKey
  privateKey,   \* this.privateKey
  pubFrom,      \* the importKeyPair call that assigned this.publicKey (1 is the constructor's)
  privFrom,     \* the importKeyPair call that assigned this.privateKey
  calls,        \* importKeyPair calls made on the engine
  last          \* the most recent call and its outcome

vars == <<now, constructed, publicKey, privateKey, pubFrom, privFrom, calls, last>>

engine == <<constructed, publicKey, privateKey, pubFrom, privFrom, calls>>

\* ---------------------------------------------------------------- bounds
\* The clock starts on any day of the years FirstYear .. FirstYear+NumYears-1.
FirstYear == 2024
NumYears == 1
\* Resolution of the time of day.
TicksPerDay == 2
\* Largest number of ticks the clock advances before one `new Date()`.
MaxAdvance == 1
\* Largest number of importKeyPair calls made on an engine after its
\* construction.
MaxCalls == 1

\* ------------------------------------------------------------- Date model
IsLeap(y) == (y % 4 = 0 /\ y % 100 # 0) \/ y % 400 = 0

\* m is a month index 0..11
DaysInMonth(y, m) ==
  IF m = 1 THEN (IF IsLeap(y) THEN 29 ELSE 28)
  ELSE IF m \in {3, 5, 8, 10} THEN 30 ELSE 31

\* The date the platform makes of the fields (y, m, d, t) when d runs past
\* the end of the month m (Date's overflow rule); d >= 1, m in 0..11.
RECURSIVE MakeDate(_, _, _, _)
MakeDate(y, m, d, t) ==
  IF d <= DaysInMonth(y, m) THEN [y |-> y, m |-> m, d |-> d, t |-> t]
  ELSE IF m = 11 THEN MakeDate(y + 1, 0, d - DaysInMonth(y, m), t)
  ELSE MakeDate(y, m + 1, d - DaysInMonth(y, m), t)

getFullYear(date) == date.y
getMonth(date) == date.m
getDate(date) == date.d

setDate(date, day) == MakeDate(date.y, date.m, day, date.t)
setMonth(date, month) == MakeDate(date.y, month, date.d, date.t)
setFullYear(date, year) == MakeDate(year, date.m, date.d, date.t)

\* The clock n ticks after date.
RECURSIVE Advance(_, _)
Advance(date, n) ==
  IF n = 0 THEN date
  ELSE IF date.t + 1 < TicksPerDay
       THEN Advance([date EXCEPT !.t = date.t + 1], n - 1)
       ELSE Advance(MakeDate(date.y, date.m, date.d + 1, 0), n - 1)

Dates ==
  { [y |-> y, m |-> m, d |-> d, t |-> t] :
      y \in FirstYear .. (FirstYear + NumYears - 1), m \in 0 .. 11,
      d \in 1 .. 31, t \in 0 .. (TicksPerDay - 1) }

ValidDates == { dt \in Dates : dt.d <= DaysInMonth(dt.y, dt.m) }

\* ----------------------------------------------------------- String model
Digit(n) ==
  CASE n = 0 -> "0" [] n = 1 -> "1" [] n = 2 -> "2" [] n = 3 -> "3"
    [] n = 4 -> "4" [] n = 5 -> "5" [] n = 6 -> "6" [] n = 7 -> "7"
    [] n = 8 -> "8" [] n = 9 -> "9"

\* String(n) for a non-negative integer n
RECURSIVE String(_)
String(n) == IF n < 10 THEN <<Digit(n)>> ELSE String(n \div 10) \o <<Digit(n % 10)>>

\* s.slice(-2)
SliceLast2(s) == IF Len(s) <= 2 THEN s ELSE SubSeq(s, Len(s) - 1, Len(s))

\* ------------------------------------------------------------ createSerial
\* createSerial, as a function of the value its `new Date()` returns.
createSerial(today) ==
  LET month == getMonth(today) + 1
      day == getDate(today)
      date == IF day > 1
              THEN setDate(today, day - 1)
              ELSE setDate(setMonth(today, (month + 11) % 12), 30)
  IN  String(getFullYear(date))
        \o SliceLast2(<<"0">> \o String(month))
        \o SliceLast2(<<"0">> \o String(day))
        \o <<"0", "0">>

\* ------------------------------------------------------- keys and PEM text
KeyIds == {"A", "B"}

\* JavaScript values a key option or a file can hold: undefined, the empty
\* string, text that holds no PEM message, and the PEM of a public or of a
\* private key of the key pair id.
Undefined == [type |-> "undefined", id |-> "-"]
EmptyString == [type |-> "empty", id |-> "-"]
Garbage == [type |-> "garbage", id |-> "-"]
PublicPem(id) == [type |-> "PUBLIC KEY", id |-> id]
PrivatePem(id) == [type |-> "RSA PRIVATE KEY", id |-> id]

PemTexts == {Garbage} \cup {PublicPem(k) : k \in KeyIds} \cup {PrivatePem(k) : k \in KeyIds}
KeyOptions == {Undefined, EmptyString} \cup PemTexts
FileContents == {EmptyString} \cup PemTexts

\* !x for a string-or-undefined x
Falsy(x) == x.type \in {"undefined", "empty"}

Null == [kind |-> "null", id |-> "-"]
PublicKeyOf(id) == [kind |-> "public", id |-> id]
PrivateKeyOf(id) == [kind |-> "private", id |-> id]

NoError == "none"

\* pki.publicKeyFromPem: the parsed key, or the error it throws.
publicKeyFromPem(pem) ==
  IF pem.type \in {"undefined", "empty", "garbage"}
  THEN [thrown |-> "InvalidPEM", key |-> Null]
  ELSE IF pem.type # "PUBLIC KEY"
  THEN [thrown |-> "WrongPEMHeader", key |-> Null]
  ELSE [thrown |-> NoError, key |-> PublicKeyOf(pem.id)]

\* pki.privateKeyFromPem: the parsed key, or the error it throws.
privateKeyFromPem(pem) ==
  IF pem.type \in {"undefined", "empty", "garbage"}
  THEN [thrown |-> "InvalidPEM", key |-> Null]
  ELSE IF pem.type # "RSA PRIVATE KEY"
  THEN [thrown |-> "WrongPEMHeader", key |-> Null]
  ELSE [thrown |-> NoError, key |-> PrivateKeyOf(pem.id)]

\* ------------------------------------------------------------ importKeyPair
\* importKeyPair(publicKey, privateKey) on an engine whose fields are
\* curPub and curPriv: the fields afterwards, which of them were assigned,
\* and the error thrown.
importKeyPair(pubPem, privPem, curPub, curPriv) ==
  LET pub == publicKeyFromPem(pubPem)
      priv == privateKeyFromPem(privPem)
  IN  IF pub.thrown # NoError
      THEN [thrown |-> pub.thrown, publicKey |-> curPub, privateKey |-> curPriv,
            pubSet |-> FALSE, privSet |-> FALSE]
      ELSE IF priv.thrown # NoError
      THEN [thrown |-> priv.thrown, publicKey |-> pub.key, privateKey |-> curPriv,
            pubSet |-> TRUE, privSet |-> FALSE]
      ELSE [thrown |-> NoError, publicKey |-> pub.key, privateKey |-> priv.key,
            pubSet |-> TRUE, privSet |-> TRUE]

\* -------------------------------------------------------------- constructor
NoPath == ""
FilePaths == {NoPath, "key.pem", "absent.pem"}

\* fs.readFileSync(path, 'ascii') when the file holds content
readFileSync(path, content) ==
  IF path = "absent.pem"
  THEN [thrown |-> "ENOENT", text |-> Undefined]
  ELSE [thrown |-> NoError, text |-> content]

\* What a file at path can hold.
ContentsAt(path) == IF path = "key.pem" THEN FileContents ELSE {Undefined}

\* Neither an inline string nor a file path is given for a key.
NotSupplied(key, keyFile) == Falsy(key) /\ keyFile = NoPath

\* A constructor that imports the key pair only when both keys were given,
\* and otherwise returns an engine without keys.
constructorSkipsImport(pubKey, privKey, pubKeyFile, privKeyFile, pubContent, privContent) ==
  LET readPub == Falsy(pubKey) /\ pubKeyFile # NoPath
      readPriv == Falsy(privKey) /\ privKeyFile # NoPath
      pubFile == readFileSync(pubKeyFile, pubContent)
      privFile == readFileSync(privKeyFile, privContent)
      pubText == IF readPub THEN pubFile.text ELSE pubKey
      privText == IF readPriv THEN privFile.text ELSE privKey
      imp == importKeyPair(pubText, privText, Null, Null)
  IN  IF readPub /\ pubFile.thrown # NoError
      THEN [thrown |-> pubFile.thrown, publicKey |-> Null, privateKey |-> Null]
      ELSE IF readPriv /\ privFile.thrown # NoError
      THEN [thrown |-> privFile.thrown, publicKey |-> Null, privateKey |-> Null]
      ELSE IF Falsy(pubText) \/ Falsy(privText)
      THEN [thrown |-> NoError, publicKey |-> Null, privateKey |-> Null]
      ELSE [thrown |-> imp.thrown, publicKey |-> imp.publicKey, privateKey |-> imp.privateKey]

\* new DynamicCertificates({pubKey, privKey, pubKeyFile, privKeyFile}), the
\* two files holding pubContent and privContent: the error thrown, and the
\* fields of the new engine.
constructorOutcome(pubKey, privKey, pubKeyFile, privKeyFile, pubContent, privContent) ==
  LET readPub == Falsy(pubKey) /\ pubKeyFile # NoPath
      readPriv == Falsy(privKey) /\ privKeyFile # NoPath
      pubFile == readFileSync(pubKeyFile, pubContent)
      privFile == readFileSync(privKeyFile, privContent)
      pubText == IF readPub THEN pubFile.text ELSE pubKey
      privText == IF readPriv THEN privFile.text ELSE privKey
      imp == importKeyPair(pubText, privText, Null, Null)
  IN  IF readPub /\ pubFile.thrown # NoError
      THEN [thrown |-> pubFile.thrown, publicKey |-> Null, privateKey |-> Null]
      ELSE IF readPriv /\ privFile.thrown # NoError
      THEN [thrown |-> privFile.thrown, publicKey |-> Null, privateKey |-> Null]
      ELSE [thrown |-> imp.thrown, publicKey |-> imp.publicKey, privateKey |-> imp.privateKey]

\* --------------------------------------------------------- createCertifcate
\* Server names the TLS server or a caller passes: the empty string, a DNS
\* name and an IP literal.
ServerNames == {<<>>, <<"a">>, <<"1", ".", "1", ".", "1", ".", "1">>}

NoDate == [y |-> 0, m |-> 0, d |-> 0, t |-> 0]
NoCert == [serialNumber |-> <<>>]

\* cert.validity after lines 76-80: notBefore is the first `new Date()`,
\* notAfter the second one with its year set to notBefore's year + 1.
certValidity(read1, read2) ==
  [notBefore |-> read1,
   notAfter |-> setFullYear(read2, getFullYear(read1) + 1)]

\* An attribute array kept from the previous call and reused when that call
\* was for another name.
certAttrsShared(serverName) ==
  IF last.op \in {"createCertifcate", "sniCallback"}
  THEN <<[name |-> "commonName", value |-> last.serverName]>>
  ELSE <<[name |-> "commonName", value |-> serverName]>>

\* The attribute array given to setSubject and to setIssuer.
certAttrs(serverName) == <<[name |-> "commonName", value |-> serverName]>>

\* An issuer that names the engine instead of the server.
certIssuerOwnName(serverName) ==
  <<[name |-> "commonName", value |-> <<"c", "a">>]>>

\* The issuer the certificate gets for serverName.
certIssuer(serverName) == certAttrs(serverName)

\* The subject the certificate gets for serverName.
certSubject(serverName) == certAttrs(serverName)

IsIPLiteral(serverName) ==
  /\ serverName # <<>>
  /\ \A i \in 1 .. Len(serverName) :
       serverName[i] \in {"0", "1", "2", "3", "4", "5", "6", "7", "8", "9", "."}

\* Alternative names that give an IP literal the type iPAddress (7).
certAltNamesTypedIP(serverName) ==
  IF IsIPLiteral(serverName)
  THEN <<[type |-> 7, value |-> serverName]>>
  ELSE <<[type |-> 2, value |-> serverName],
         [type |-> 2, value |-> <<"*", ".">> \o serverName]>>

\* The alternative names of the subjectAltName extension.
certAltNames(serverName) ==
  <<[type |-> 2, value |-> serverName],
    [type |-> 2, value |-> <<"*", ".">> \o serverName]>>

\* The array given to setExtensions ("extKeyUsage" is the library's name of
\* the extendedKeyUsage extension).
certExtensions(serverName) ==
  <<[name |-> "basicConstraints", cA |-> FALSE],
    [name |-> "keyUsage", digitalSignature |-> TRUE, keyEncipherment |-> TRUE],
    [name |-> "extKeyUsage", serverAuth |-> TRUE, clientAuth |-> TRUE],
    [name |-> "subjectAltName", altNames |-> certAltNames(serverName)],
    [name |-> "subjectKeyIdentifier"]>>

\* createCertifcate(serverName) on an engine holding pub and priv, its three
\* `new Date()` returning read0 (in createSerial), read1 and read2.
createCertifcate(serverName, pub, priv, read0, read1, read2) ==
  [certificate |->
     [publicKey |-> pub,
      serialNumber |-> createSerial(read0),
      validity |-> certValidity(read1, read2),
      subject |-> certSubject(serverName),
      issuer |-> certIssuer(serverName),
      extensions |-> certExtensions(serverName),
      signature |-> [key |-> priv, md |-> "sha256"]],
   privateKey |-> priv,
   publicKey |-> pub]

\* -------------------------------------------------------------- sniCallback
certificateToPem(cert) == [type |-> "CERTIFICATE", der |-> cert]
privateKeyToPem(key) == [type |-> "RSA PRIVATE KEY", id |-> key.id]

\* tls.createSecureContext({cert, key}): the TLS library refuses a private
\* key that does not belong to the certificate's public key.
createSecureContext(certPem, keyPem) ==
  IF certPem.der.publicKey.id # keyPem.id
  THEN [thrown |-> "KeyValuesMismatch", context |-> [cert |-> NoCert, key |-> Null]]
  ELSE [thrown |-> NoError, context |-> [cert |-> certPem, key |-> keyPem]]

\* sniCallback(serverName, callback) given what createCertifcate returned:
\* the calls made to callback, in order, and the error raised to the caller.
sniCallback(cert) ==
  LET ctx == createSecureContext(certificateToPem(cert.certificate),
                                 privateKeyToPem(cert.privateKey))
  IN  IF ctx.thrown # NoError
      THEN [thrown |-> ctx.thrown, responses |-> <<>>]
      ELSE [thrown |-> NoError,
            responses |-> <<[error |-> "null", credential |-> ctx.context]>>]

\* ------------------------------------------------------------- the machine
\* last describes the most recent call: the operation, its serverName, the
\* Date createSerial read, the error thrown to the caller, the certificate
\* and the serial returned, the callback invocations made, and whether the
\* constructor was given no source for the public or for the private key.
NoCall ==
  [op |-> "none", serverName |-> <<>>, today |-> NoDate, thrown |-> NoError,
   cert |-> NoCert, serial |-> <<>>, responses |-> <<>>,
   noPub |-> FALSE, noPriv |-> FALSE]

\* Ticks the clock may advance before a `new Date()`.
Advances(date) == IF date.y < FirstYear + NumYears THEN 0 .. MaxAdvance ELSE {0}

\* The engine is created on the last day of the last year of the calendar,
\* so that the clock can pass into the next year and no further.
ServiceStart ==
  { dt \in ValidDates : dt.y = FirstYear + NumYears - 1 /\ dt.m = 11 /\ dt.d = 31 }

Init ==
  /\ now \in ServiceStart
  /\ constructed = FALSE
  /\ publicKey = Null
  /\ privateKey = Null
  /\ pubFrom = 0
  /\ privFrom = 0
  /\ calls = 0
  /\ last = NoCall

Construct ==
  /\ ~constructed
  /\ \E pubKey \in KeyOptions, privKey \in KeyOptions,
        pubKeyFile \in FilePaths, privKeyFile \in FilePaths :
       \E pubContent \in ContentsAt(pubKeyFile), privContent \in ContentsAt(privKeyFile) :
          LET r == constructorOutcome(pubKey, privKey, pubKeyFile, privKeyFile,
                                      pubContent, privContent)
              ok == r.thrown = NoError
          IN  /\ constructed' = ok
              /\ publicKey' = IF ok THEN r.publicKey ELSE Null
              /\ privateKey' = IF ok THEN r.privateKey ELSE Null
              /\ calls' = IF ok THEN 1 ELSE 0
              /\ pubFrom' = IF ok THEN 1 ELSE 0
              /\ privFrom' = IF ok THEN 1 ELSE 0
              /\ last' = [NoCall EXCEPT !.op = "constructor", !.thrown = r.thrown,
                                        !.noPub = NotSupplied(pubKey, pubKeyFile),
                                        !.noPriv = NotSupplied(privKey, privKeyFile)]
  /\ UNCHANGED now

ImportKeyPair ==
  /\ constructed
  /\ calls < 1 + MaxCalls
  /\ \E pubPem \in KeyOptions, privPem \in KeyOptions :
       LET r == importKeyPair(pubPem, privPem, publicKey, privateKey)
       IN  /\ publicKey' = r.publicKey
           /\ privateKey' = r.privateKey
           /\ calls' = calls + 1
           /\ pubFrom' = IF r.pubSet THEN calls + 1 ELSE pubFrom
           /\ privFrom' = IF r.privSet THEN calls + 1 ELSE privFrom
           /\ last' = [NoCall EXCEPT !.op = "importKeyPair", !.thrown = r.thrown]
  /\ UNCHANGED <<now, constructed>>

CreateSerial ==
  /\ constructed
  /\ \E a0 \in Advances(now) :
       LET read0 == Advance(now, a0)
       IN  /\ now' = read0
           /\ last' = [NoCall EXCEPT !.op = "createSerial", !.today = read0,
                                     !.serial = createSerial(read0)]
  /\ UNCHANGED engine

CreateCertifcate ==
  /\ constructed
  /\ \E serverName \in ServerNames :
       \E a0 \in Advances(now) :
         \E a1 \in Advances(Advance(now, a0)) :
           \E a2 \in Advances(Advance(now, a0 + a1)) :
             LET read0 == Advance(now, a0)
                 read1 == Advance(read0, a1)
                 read2 == Advance(read1, a2)
                 r == createCertifcate(serverName, publicKey, privateKey,
                                       read0, read1, read2)
             IN  /\ now' = read2
                 /\ last' = [NoCall EXCEPT !.op = "createCertifcate",
                                           !.serverName = serverName,
                                           !.today = read0,
                                           !.cert = r.certificate]
  /\ UNCHANGED engine

SniCallback ==
  /\ constructed
  /\ \E serverName \in ServerNames :
       \E a0 \in Advances(now) :
         \E a1 \in Advances(Advance(now, a0)) :
           \E a2 \in Advances(Advance(now, a0 + a1)) :
             LET read0 == Advance(now, a0)
                 read1 == Advance(read0, a1)
                 read2 == Advance(read1, a2)
                 c == createCertifcate(serverName, publicKey, privateKey,
                                       read0, read1, read2)
                 r == sniCallback(c)
             IN  /\ now' = read2
                 /\ last' = [NoCall EXCEPT !.op = "sniCallback",
                                           !.serverName = serverName,
                                           !.today = read0,
                                           !.thrown = r.thrown,
                                           !.cert = c.certificate,
                                           !.responses = r.responses]
  /\ UNCHANGED engine

Next ==
  \/ Construct
  \/ ImportKeyPair
  \/ CreateSerial
  \/ CreateCertifcate
  \/ SniCallback

Spec == Init /\ [][Next]_vars

\* An engine constructed from two inline PEM strings, on any day of the
\* calendar, and the calls that read the clock.
InitIssue ==
  /\ now \in ValidDates
  /\ \E a \in KeyIds, b \in KeyIds :
       LET r == constructorOutcome(PublicPem(a), PrivatePem(b), NoPath, NoPath,
                                   Undefined, Undefined)
       IN  /\ publicKey = r.publicKey
           /\ privateKey = r.privateKey
           /\ last = [NoCall EXCEPT !.op = "constructor", !.thrown = r.thrown]
  /\ constructed = TRUE
  /\ pubFrom = 1
  /\ privFrom = 1
  /\ calls = 1

NextIssue ==
  \/ CreateSerial
  \/ CreateCertifcate

SpecIssue == InitIssue /\ [][NextIssue]_vars

\* ================================================================= claims
IssueOps == {"createCertifcate", "sniCallback"}

\* n written with at least two digits
Pad2(n) == IF n < 10 THEN <<"0">> \o String(n) ELSE String(n)

\* The serial YYYYMMDD00 of year, month 1..12 and day as given.
SerialOf(year, month, day) == String(year) \o Pad2(month) \o Pad2(day) \o <<"0", "0">>

\* C1: on a date whose day of month is greater than 1, createSerial returns
\* the previous day of the same month as YYYYMMDD followed by "00".
C1_SerialIsPreviousDay ==
  (last.op = "createSerial" /\ last.today.d > 1)
    => last.serial = SerialOf(last.today.y, last.today.m + 1, last.today.d - 1)

\* C2: on the first day of a month, createSerial returns day 30 of the month
\* (month + 11) % 12 as YYYYMMDD followed by "00".
C2_SerialIsDay30OfPreviousMonth ==
  (last.op = "createSerial" /\ last.today.d = 1)
    => last.serial = SerialOf(last.today.y, ((last.today.m + 1) + 11) % 12, 30)

\* C3: the certificate createCertifcate returns has notAfter equal to its
\* notBefore with the year raised by one: same month, day and time of day.
C3_NotAfterIsNotBeforePlusOneYear ==
  last.op = "createCertifcate"
    => last.cert.validity.notAfter =
         [last.cert.validity.notBefore EXCEPT !.y = @ + 1]

\* C4: every sniCallback invocation calls its callback exactly once, with
\* (null, credential) when issuance succeeds and with (error, null) when it
\* fails, and raises nothing to the TLS server.
C4_ExactlyOneResponse ==
  last.op = "sniCallback"
    => /\ last.thrown = NoError
       /\ Len(last.responses) = 1
       /\ \/ /\ last.responses[1].error = "null"
             /\ last.responses[1].credential.key # Null
          \/ /\ last.responses[1].error # "null"
             /\ last.responses[1].credential.key = Null

\* C5: issuing for the empty server name fails with InvalidHostnameError,
\* produces no certificate and hands no credential to the callback.
C5_EmptyHostnameRejected ==
  (last.op \in IssueOps /\ last.serverName = <<>>)
    => /\ last.thrown = "InvalidHostnameError"
       /\ last.cert = NoCert
       /\ \A i \in 1 .. Len(last.responses) : last.responses[i].error # "null"

\* C6: the stored publicKey and privateKey always come from the same
\* successful importKeyPair call.
C6_KeyPairFromOneImport ==
  constructed => (pubFrom = privFrom /\ publicKey # Null /\ privateKey # Null)

C8_SelfSignedNames ==
  last.op \in IssueOps
    => /\ Len(last.cert.subject) = 1
       /\ last.cert.subject[1].name = "commonName"
       /\ last.cert.subject[1].value = last.serverName
       /\ last.cert.issuer = last.cert.subject

C8_Witness ==
  /\ last.op = "createCertifcate"
  /\ last.serverName = <<"a">>
  /\ last.cert.issuer = <<[name |-> "commonName", value |-> <<"a">>]>>

\* C9: the certificate returned for server name h carries exactly the five
\* extensions basicConstraints, keyUsage, extendedKeyUsage (extKeyUsage),
\* subjectAltName, subjectKeyIdentifier in this order, and its subjectAltName
\* is exactly the two DNS (type 2) entries h and "*." + h, also for an IP
\* literal.
C9_ExtensionsAndAltNames ==
  last.op \in IssueOps
    => LET ext == last.cert.extensions
       IN  /\ Len(ext) = 5
           /\ [i \in 1 .. 5 |-> ext[i].name]
                = <<"basicConstraints", "keyUsage", "extKeyUsage",
                    "subjectAltName", "subjectKeyIdentifier">>
           /\ Len(ext[4].altNames) = 2
           /\ \A i \in 1 .. 2 : ext[4].altNames[i].type = 2
           /\ ext[4].altNames[1].value = last.serverName
           /\ ext[4].altNames[2].value = <<"*", ".">> \o last.serverName

C9_Witness ==
  /\ last.op = "createCertifcate"
  /\ last.serverName = <<"1", ".", "1", ".", "1", ".", "1">>
  /\ last.cert.extensions[4].altNames[2].value
       = <<"*", ".", "1", ".", "1", ".", "1", ".", "1">>

\* Every name a certificate carries: subject, issuer and alternative names.
NamesIn(cert) ==
  {cert.subject[i].value : i \in 1 .. Len(cert.subject)}
    \cup {cert.issuer[i].value : i \in 1 .. Len(cert.issuer)}
    \cup {cert.extensions[4].altNames[i].value :
            i \in 1 .. Len(cert.extensions[4].altNames)}

\* C10: in any sequence of sniCallback and createCertifcate invocations, for
\* the same or for different server names, an invocation changes neither the
\* stored key pair nor any other state of the engine, and its certificate
\* names only the server name it was given.
C10_IssuanceFrame ==
  [][last'.op \in IssueOps
       => /\ engine' = engine
          /\ NamesIn(last'.cert)
               \subseteq {last'.serverName, <<"*", ".">> \o last'.serverName}]_vars

C10_Witness ==
  /\ last.op = "sniCallback"
  /\ last.serverName = <<"a">>
  /\ last.thrown = NoError
  /\ calls = 2
  /\ pubFrom = 2 /\ privFrom = 2
  /\ Len(last.responses) = 1

====
